---- MODULE Spec2Model ----
(***************************************************************************)
(* The live drowsiness pipeline of api/routes/drowsiness.py:               *)
(*   - ws_infer, one coroutine per websocket session, which receives a     *)
(*     frame, decodes it, runs _detect_labels_and_boxes on a worker        *)
(*     thread (anyio.to_thread.run_sync, awaited) and sends the result;    *)
(*   - detect_image_json, the HTTP handler that calls                      *)
(*     _detect_labels_and_boxes and then _annotate_frame;                  *)
(*   - the process-wide _model_lock around the model call, and the         *)
(*     process-wide _last_alert_ts of the ESP32 alert cooldown.            *)
(* Strings that the code inspects (class names, keywords) are sequences of *)
(* one-character strings. Time is in whole seconds.                        *)
(***************************************************************************)
EXTENDS Integers, Sequences, FiniteSets, TLC

VARIABLES
    pc,             \* where each session coroutine / HTTP request stands
    busy,           \* ws_infer's local flag busy, per session
    inbox,          \* per session: client messages not yet received
    nsent,          \* inputs the clients have sent so far, all endpoints
    connected,      \* per session: the client has not disconnected
    outbox,         \* per session: the JSON messages sent to the client
    cur,            \* per session: the message ws_infer is handling; its
                    \* field whileBusy records that the frame arrived at the
                    \* server while busy was True
    det,            \* per caller: the value _detect_labels_and_boxes returns
    nowv,           \* per caller: the local variable now
    esp,            \* per caller: how the request of _trigger_esp32 ended
    model_lock,     \* holder of _model_lock
    last_alert_ts,  \* the global _last_alert_ts
    clock,          \* the last value time.time() returned
    last_sent,      \* when the latest request to the ESP32 was issued (0: never)
    nalerts,        \* how many requests to the ESP32 were issued
    \* the data path of one call of _detect_labels_and_boxes
    frame,          \* shape (h0, w0) of the frame passed in
    fr,             \* what _maybe_resize returned: shape of fr, and sx
    results,        \* what model(fr) returned: names of the boxes, and xyxy
    ret,            \* the dict returned
    \* the DrowsinessDetector object of models/detection_model.py
    frame_buffer,   \* self.frame_buffer
    total_frames,   \* self.total_frames
    drowsy_frames,  \* self.drowsy_frames
    detected,       \* what the last call of detect returned
    \* the sqlite tables of app.py and the client of its handlers
    users,          \* the rows of table users: username and email
    sessions,       \* the rows of table sessions, by id: open or ended
    resp            \* the last response: handler, what its body did, status

pipevars == <<pc, busy, inbox, nsent, connected, outbox, cur, det, nowv, esp,
              model_lock, last_alert_ts, clock, last_sent, nalerts>>
framevars == <<frame, fr, results, ret>>
detvars == <<frame_buffer, total_frames, drowsy_frames, detected>>

apivars == <<users, sessions, resp>>

vars == <<pipevars, framevars, detvars, apivars>>

----------------------------------------------------------------------------
(* Bounds of the model. *)

\* inputs the clients send: websocket messages and HTTP images together
MaxFrames == 2

\* seconds the clock may advance after the start of the model
MaxTicks == 2

Sessions == {"s1", "s2"}
Https == {"h1"}
Callers == Sessions \cup Https

NoOne == "none"
NoMsg == [id |-> 0, kind |-> "none", whileBusy |-> FALSE]

----------------------------------------------------------------------------
(* Program constants. *)

\* ALERT_COOLDOWN_S = float(os.getenv("ESP32_ALERT_COOLDOWN", "2.0"))
ALERT_COOLDOWN_S == 2

\* time.time() is seconds since the epoch, far more than one cooldown after
\* the initial _last_alert_ts = 0.0
StartClock == ALERT_COOLDOWN_S + 1
MaxClock == StartClock + MaxTicks

\* DrowsinessDetector.class_names: the label vocabulary of the trained model
class_names ==
    [c \in 0..3 |->
        CASE c = 0 -> <<"a","l","e","r","t">>
          [] c = 1 -> <<"d","r","o","w","s","y">>
          [] c = 2 -> <<"e","y","e","s","_","c","l","o","s","e","d">>
          [] c = 3 -> <<"y","a","w","n","i","n","g">>]

drowsy_keywords ==
    << <<"d","r","o","w","s","y">>, <<"s","l","e","e","p">>,
       <<"a","s","l","e","e","p">>, <<"c","l","o","s","e","d">>,
       <<"y","a","w","n">>, <<"t","i","r","e","d">> >>

\* what the model may return for a frame: the class ids of its boxes
ModelOutputs == {<<0>>, <<2>>}

----------------------------------------------------------------------------
(* Pure helpers of _detect_labels_and_boxes. *)

UpperChars == <<"A","B","C","D","E","F","G","H","I","J","K","L","M",
                "N","O","P","Q","R","S","T","U","V","W","X","Y","Z">>
LowerChars == <<"a","b","c","d","e","f","g","h","i","j","k","l","m",
                "n","o","p","q","r","s","t","u","v","w","x","y","z">>

\* str.lower() on one character
LowerChar(ch) ==
    IF \E i \in 1..26 : UpperChars[i] = ch
    THEN LowerChars[CHOOSE i \in 1..26 : UpperChars[i] = ch]
    ELSE ch

Lower(str) == [i \in 1..Len(str) |-> LowerChar(str[i])]

\* " ".join(labels)
RECURSIVE Join(_)
Join(labels) ==
    IF labels = <<>> THEN <<>>
    ELSE IF Len(labels) = 1 THEN labels[1]
    ELSE labels[1] \o <<" ">> \o Join(Tail(labels))

\* k in text
IsSubstr(k, text) ==
    \E i \in 0..(Len(text) - Len(k)) :
        \A j \in 1..Len(k) : text[i + j] = k[j]

\* labels = [names[int(c)] for c in cls]
LabelsOf(cls) == [i \in 1..Len(cls) |-> class_names[cls[i]]]

\* mutant: a keyword has to be a whole label text
IsDrowsyExact(labels) ==
    LET text == Lower(Join(labels))
    IN \E n \in 1..Len(drowsy_keywords) : drowsy_keywords[n] = text

\* text = " ".join(labels).lower()
\* is_drowsy = any(k in text for k in drowsy_keywords)
IsDrowsyLabels(labels) ==
    LET text == Lower(Join(labels))
    IN \E n \in 1..Len(drowsy_keywords) : IsSubstr(drowsy_keywords[n], text)

\* is_drowsy for the boxes of the classes cls
IsDrowsy(cls) == IsDrowsyLabels(LabelsOf(cls))

\* the dict _detect_labels_and_boxes returns for the model output cls
DetOf(cls) == [kind |-> "det", cls |-> cls, drowsy |-> IsDrowsy(cls)]

\* the model call raised: the exception leaves _detect_labels_and_boxes
DetRaise == [kind |-> "raise", cls |-> <<>>, drowsy |-> FALSE]
NoDet == [kind |-> "none", cls |-> <<>>, drowsy |-> FALSE]

\* ws_infer, the except clause around run_sync
ErrorDet == [kind |-> "error", cls |-> <<>>, drowsy |-> FALSE]

\* mutant: the cooldown test with > in place of >=
CooldownElapsedStrict(now, last) == (now - last) > ALERT_COOLDOWN_S

\* the cooldown test of _detect_labels_and_boxes
CooldownElapsed(now, last) == (now - last) >= ALERT_COOLDOWN_S

\* cv2.imdecode on the bytes of a message: a frame decodes to an image, a
\* corrupt buffer gives None, an empty buffer makes OpenCV raise cv2.error
\* (its assertion !buf.empty())
Imdecode(kind) ==
    CASE kind = "frame" -> "img"
      [] kind = "corrupt" -> "None"
      [] kind = "empty" -> "raise"

\* mutant: the model call without the lock
LockIgnored == TRUE

\* with _model_lock: the lock can be taken
LockFree == model_lock = NoOne

\* mutant: a result overtakes the results sent before it
EmitFirst(o, reply) == <<reply>> \o o

\* websocket.send_json(reply), appended to what the client has been sent
Emit(o, reply) == Append(o, reply)

\* mutant: run_sync without the except clause around it
RunSyncUnguarded(d) == d

\* det as ws_infer has it after the try/except around run_sync: the dict the
\* worker returned, or the error dict when it raised
RunSyncResult(d) == IF d.kind = "raise" THEN ErrorDet ELSE d

Reply(id, d) == [id |-> id, kind |-> d.kind, cls |-> d.cls, drowsy |-> d.drowsy]

\* where a caller goes on when _detect_labels_and_boxes returns (raised:
\* it raises): the session coroutine is resumed by the event loop, the HTTP
\* thread goes straight on to _annotate_frame or ends with a 500
AfterDetect(c, raised) ==
    IF c \in Sessions THEN "done"
    ELSE IF raised THEN "idle" ELSE "a_lock"

\* mutant: ws_infer without its except clauses
HandlerCrash == "crashed"

\* the state in which ws_infer ends when an exception reaches its handlers:
\* WebSocketDisconnect and Exception are both caught, nothing is raised
HandlerExit == "closed"

----------------------------------------------------------------------------
(* The data path of _detect_labels_and_boxes: shapes, scales, boxes and     *)
(* labels. A float that is a quotient of integers is the pair <<n, d>> of   *)
(* its numerator and denominator (d > 0); products are in lowest terms.     *)

\* _maybe_resize(frame, 640)
max_side == 640

\* heights and widths of the frames passed in
Edges == {1, 480, 537, 640, 641, 716, 720, 1077, 1280, 1920}

\* longest list of boxes the model returns for one frame
MaxBoxes == 2

One == <<1, 1>>
Rat(n) == <<n, 1>>
RECURSIVE GCD(_, _)
GCD(a, b) == IF b = 0 THEN a ELSE GCD(b, a % b)

\* a fraction in lowest terms
Reduce(n, d) == IF n = 0 THEN <<0, 1>> ELSE <<n \div GCD(n, d), d \div GCD(n, d)>>

RatMul(a, b) == Reduce(a[1] * b[1], a[2] * b[2])
RatEq(a, b) == a[1] * b[2] = b[1] * a[2]
RatLe(a, b) == a[1] * b[2] <= b[1] * a[2]

\* 1.0 / sx
RatInv(a) == <<a[2], a[1]>>

Max(a, b) == IF a >= b THEN a ELSE b

\* the pairs <<e, m>> of Edges, m > max_side, for which the double
\* e * (max_side / float(m)) lies just below the integer that the exact
\* product is (IEEE-754 binary64), so that int() gives one less
RoundsBelow == {<<537, 716>>, <<1077, 1077>>}

\* int(e * scale) for scale = max_side / float(m)
Trunc(e, m) ==
    ((e * max_side) \div m) - (IF <<e, m>> \in RoundsBelow THEN 1 ELSE 0)

\* scale = max_side / float(max(h, w))
ScaleOf(h, w) == <<max_side, Max(h, w)>>

NoFr == [kind |-> "none", h |-> 0, w |-> 0, sx |-> One]

\* mutant: every frame goes through the resize branch
MaybeResizeAlways(shape) ==
    [kind |-> "resized",
     h |-> Trunc(shape.h, Max(shape.h, shape.w)),
     w |-> Trunc(shape.w, Max(shape.h, shape.w)),
     sx |-> ScaleOf(shape.h, shape.w)]

\* _maybe_resize: the frame itself and 1.0 when no edge exceeds max_side,
\* else the resized frame and the scale; cv2.resize raises cv2.error when
\* the target size has a zero edge
MaybeResize(shape) ==
    LET m == Max(shape.h, shape.w)
        new_w == Trunc(shape.w, m)
        new_h == Trunc(shape.h, m)
    IN IF m > max_side
       THEN IF new_w = 0 \/ new_h = 0
            THEN [kind |-> "raise", h |-> new_h, w |-> new_w,
                  sx |-> ScaleOf(shape.h, shape.w)]
            ELSE [kind |-> "resized", h |-> new_h, w |-> new_w,
                  sx |-> ScaleOf(shape.h, shape.w)]
       ELSE [kind |-> "same", h |-> shape.h, w |-> shape.w, sx |-> One]

\* a box of the frame passed in, as the model sees it in fr
Project(b, sx) == [j \in 1..4 |-> RatMul(Rat(b[j]), sx)]

\* boxes of the frame passed in: all of it, and all but its first row and
\* column
OrigBoxes(shape) ==
    {<<0, 0, shape.w, shape.h>>, <<1, 1, shape.w, shape.h>>}

\* mutant: the boxes multiplied by the scale itself
RescaleByScale(xyxy, sx) ==
    IF sx # One
    THEN [i \in 1..Len(xyxy) |-> [j \in 1..4 |-> RatMul(xyxy[i][j], sx)]]
    ELSE xyxy

\* if sx != 1.0 or sy != 1.0: inv = 1.0 / sx, every b[j] *= inv
Rescale(xyxy, sx) ==
    IF sx # One
    THEN [i \in 1..Len(xyxy) |->
             [j \in 1..4 |-> RatMul(xyxy[i][j], RatInv(sx))]]
    ELSE xyxy

\* the coordinates x of the model, with the longest edge m of the frame
\* passed in, for which the double x * inv is not the exact product but the
\* double next above it, or next below it (IEEE-754 binary64, inv = 1.0 / sx
\* and sx = max_side / float(m)); a coordinate that is no double itself
\* stands for the double p * sx of the point p it is the image of
RescaledAbove ==
    { <<Rat(429), 716>>, <<Rat(479), 716>>, <<Rat(572), 716>>,
      <<Rat(640), 716>>, <<Rat(319), 1077>>, <<Rat(427), 1077>>,
      <<Rat(639), 1077>> }
RescaledBelow ==
    { <<Rat(479), 641>>, <<Rat(536), 641>>, <<Rat(639), 641>>,
      <<<<1280, 3>>, 720>>, <<<<5128, 9>>, 720>>,
      <<<<640, 1077>>, 1077>>, <<<<102400, 359>>, 1077>>,
      <<<<114560, 359>>, 1077>>, <<<<410240, 1077>>, 1077>>,
      <<Rat(640), 1077>> }

\* on which side of the exact product the double b[j] * inv lies: 1 above,
\* -1 below, 0 for the exact product, and for boxes that are not scaled
RescaleErr(xyxy, sx) ==
    [i \in 1..Len(xyxy) |->
        [j \in 1..4 |->
            IF sx = One THEN 0
            ELSE IF <<xyxy[i][j], sx[2]>> \in RescaledAbove THEN 1
            ELSE IF <<xyxy[i][j], sx[2]>> \in RescaledBelow THEN -1
            ELSE 0]]

\* r.names of the boxes: the class names, and names that the keywords
\* match only after lower-casing, or inside a longer word, or not at all
Vocabulary ==
    {class_names[c] : c \in 0..3} \cup
    { <<"S","l","e","e","p","y">>, <<"a","w","a","k","e">>,
      <<"r","e","t","i","r","e","d">> }

NoResults == [kind |-> "none", names |-> <<>>, xyxy |-> <<>>]
NoRet == [kind |-> "none", labels |-> <<>>, boxes |-> <<>>, err |-> <<>>,
          drowsy |-> FALSE]

\* the boxes the model may find in f: the boxes of the frame passed in as
\* they lie in f, and the box that is all of f
BoxesIn(shape, f) ==
    {Project(b, f.sx) : b \in OrigBoxes(shape)} \cup
    {<<Rat(0), Rat(0), Rat(f.w), Rat(f.h)>>}

\* what model(fr) may return for the frame: no boxes object at all, or up
\* to MaxBoxes boxes; every box is named from the vocabulary
ModelResults(shape, f) ==
    {[kind |-> "None", names |-> <<>>, xyxy |-> <<>>]} \cup
    UNION {
        {[kind |-> "boxes", names |-> ns, xyxy |-> [i \in 1..n |-> b]] :
             ns \in [1..n -> Vocabulary], b \in BoxesIn(shape, f)}
        : n \in 0..MaxBoxes }

\* the dict returned for the results r and the scale sx
RetOf(r, sx) ==
    IF r.kind = "None"
    THEN [kind |-> "dict", labels |-> <<>>, boxes |-> <<>>, err |-> <<>>,
          drowsy |-> FALSE]
    ELSE [kind |-> "dict", labels |-> r.names,
          boxes |-> Rescale(r.xyxy, sx),
          err |-> RescaleErr(r.xyxy, sx),
          drowsy |-> IsDrowsyLabels(r.names)]

RetRaise == [kind |-> "raise", labels |-> <<>>, boxes |-> <<>>, err |-> <<>>,
             drowsy |-> FALSE]

Shapes == [h : Edges, w : Edges]
NoFrame == [h |-> 0, w |-> 0]

\* no call of the data path is being followed
FrameIdle ==
    /\ frame = NoFrame
    /\ fr = NoFr
    /\ results = NoResults
    /\ ret = NoRet

----------------------------------------------------------------------------
(* DrowsinessDetector of models/detection_model.py: the frame buffer that   *)
(* smooths the verdicts, and the statistics. Confidences are in tenths.     *)

\* self.buffer_size = 5
buffer_size == 5

\* self.drowsiness_threshold = 0.5
drowsiness_threshold == 5

\* calls of detect that update the statistics, between two resets
MaxDetect == 6

\* what self.model may return for a frame: the class id and the confidence
\* of every box
DetectorResults ==
    { <<>>,
      <<[class_id |-> 0, confidence |-> 9]>>,
      <<[class_id |-> 2, confidence |-> 9]>>,
      <<[class_id |-> 2, confidence |-> 5]>>,
      <<[class_id |-> 0, confidence |-> 9], [class_id |-> 3, confidence |-> 6]>> }

\* is_drowsy after the loop over the boxes
RawDrowsy(boxes) ==
    \E i \in 1..Len(boxes) :
        /\ boxes[i].class_id \in {1, 2, 3}
        /\ boxes[i].confidence > drowsiness_threshold

\* mutant: a full buffer keeps what it has and drops the new verdict
PushKeepsOldest(buffer, v) ==
    IF Len(buffer) + 1 > buffer_size
    THEN buffer
    ELSE Append(buffer, v)

\* self.frame_buffer.append(is_drowsy), and pop(0) when it is over size
Push(buffer, v) ==
    IF Len(buffer) + 1 > buffer_size
    THEN Tail(Append(buffer, v))
    ELSE Append(buffer, v)

\* sum(self.frame_buffer)
RECURSIVE Sum(_)
Sum(buffer) ==
    IF buffer = <<>> THEN 0
    ELSE (IF Head(buffer) THEN 1 ELSE 0) + Sum(Tail(buffer))

\* mutant: more than 60% of the frames have to be drowsy
SmoothedStrict(buffer) == 10 * Sum(buffer) > 6 * buffer_size

\* drowsy_count >= (self.buffer_size * 0.6); 5 * 0.6 is the double 3.0
Smoothed(buffer) == 10 * Sum(buffer) >= 6 * buffer_size

NotDetected == [kind |-> "none", smoothed |-> FALSE]

\* the state after DrowsinessDetector.__init__
DetectorInit ==
    /\ frame_buffer = <<>>
    /\ total_frames = 0
    /\ drowsy_frames = 0
    /\ detected = NotDetected

----------------------------------------------------------------------------
PipelineInit ==
    /\ pc = [c \in Callers |-> IF c \in Sessions THEN "recv" ELSE "idle"]
    /\ busy = [s \in Sessions |-> FALSE]
    /\ inbox = [s \in Sessions |-> <<>>]
    /\ nsent = 0
    /\ connected = [s \in Sessions |-> TRUE]
    /\ outbox = [s \in Sessions |-> <<>>]
    /\ cur = [s \in Sessions |-> NoMsg]
    /\ det = [c \in Callers |-> NoDet]
    /\ nowv = [c \in Callers |-> 0]
    /\ esp = [c \in Callers |-> "none"]
    /\ model_lock = NoOne
    /\ last_alert_ts = 0
    /\ clock = StartClock
    /\ last_sent = 0
    /\ nalerts = 0

\* the state after the import of the module and the construction of the
\* detector
\* app.py: the body of a handler returned
Returned == [exc |-> "none", status |-> 200]

\* no request was answered yet
NoResp == [handler |-> "none", raised |-> Returned, status |-> 0]

\* init_db on a new database file: the tables are empty
ApiInit ==
    /\ users = {}
    /\ sessions = <<>>
    /\ resp = NoResp

Init == PipelineInit /\ FrameIdle /\ DetectorInit /\ ApiInit

----------------------------------------------------------------------------
(* The client of a session. *)

\* the client sends one binary message; it is queued until ws_infer receives
ClientSend(s, k) ==
    /\ connected[s]
    /\ nsent < MaxFrames
    /\ nsent' = nsent + 1
    /\ inbox' = [inbox EXCEPT ![s] =
                    Append(@, [id |-> nsent + 1, kind |-> k,
                               whileBusy |-> (k = "frame" /\ busy[s])])]
    /\ UNCHANGED <<pc, busy, connected, outbox, cur, det, nowv, esp,
                   model_lock, last_alert_ts, clock, last_sent>>
    /\ UNCHANGED <<nalerts, framevars, detvars, apivars>>

\* the client closes the connection: receive raises WebSocketDisconnect once
\* the queued messages are consumed, send_json fails from now on
ClientDisconnect(s) ==
    /\ connected[s]
    /\ connected' = [connected EXCEPT ![s] = FALSE]
    /\ inbox' = [inbox EXCEPT ![s] =
                    Append(@, [id |-> 0, kind |-> "disconnect",
                               whileBusy |-> FALSE])]
    /\ UNCHANGED <<pc, busy, nsent, outbox, cur, det, nowv, esp,
                   model_lock, last_alert_ts, clock, last_sent>>
    /\ UNCHANGED <<nalerts, framevars, detvars, apivars>>

----------------------------------------------------------------------------
(* ws_infer *)

\* mutant: a frame is handed to the worker without busy being set
WsReceiveNoFlag(s) ==
    /\ pc[s] = "recv"
    /\ inbox[s] # <<>>
    /\ LET m == Head(inbox[s]) IN
        /\ inbox' = [inbox EXCEPT ![s] = Tail(@)]
        /\ IF m.kind = "disconnect"
           THEN \* except WebSocketDisconnect
                /\ pc' = [pc EXCEPT ![s] = HandlerExit]
                /\ UNCHANGED <<busy, outbox, cur>>
           ELSE IF Imdecode(m.kind) = "raise"
           THEN \* except Exception: send {"error": str(e)}, then return
                /\ pc' = [pc EXCEPT ![s] = HandlerExit]
                /\ outbox' = [outbox EXCEPT ![s] =
                                IF connected[s]
                                THEN Emit(@, Reply(m.id, [ErrorDet EXCEPT !.kind = "ws_error"]))
                                ELSE @]
                /\ UNCHANGED <<busy, cur>>
           ELSE IF Imdecode(m.kind) = "None"
           THEN \* send {"error": "decode_failed"}; continue
                IF connected[s]
                THEN /\ outbox' = [outbox EXCEPT ![s] =
                                     Emit(@, Reply(m.id, [ErrorDet EXCEPT !.kind = "decode_failed"]))]
                     /\ UNCHANGED <<pc, busy, cur>>
                ELSE /\ pc' = [pc EXCEPT ![s] = HandlerExit]
                     /\ UNCHANGED <<busy, outbox, cur>>
           ELSE IF busy[s]
           THEN \* drop the frame; continue
                UNCHANGED <<pc, busy, outbox, cur>>
           ELSE \* busy = True; run _detect_labels_and_boxes on a worker
                /\ UNCHANGED busy
                /\ cur' = [cur EXCEPT ![s] = m]
                /\ pc' = [pc EXCEPT ![s] = "lock"]
                /\ UNCHANGED outbox
    /\ UNCHANGED <<nsent, connected, det, nowv, esp, model_lock,
                   last_alert_ts, clock, last_sent>>
    /\ UNCHANGED <<nalerts, framevars, detvars, apivars>>

\* one pass of the loop from receive_bytes to the start of the worker
WsReceive(s) ==
    /\ pc[s] = "recv"
    /\ inbox[s] # <<>>
    /\ LET m == Head(inbox[s]) IN
        /\ inbox' = [inbox EXCEPT ![s] = Tail(@)]
        /\ IF m.kind = "disconnect"
           THEN \* except WebSocketDisconnect
                /\ pc' = [pc EXCEPT ![s] = HandlerExit]
                /\ UNCHANGED <<busy, outbox, cur>>
           ELSE IF Imdecode(m.kind) = "raise"
           THEN \* except Exception: send {"error": str(e)}, then return
                /\ pc' = [pc EXCEPT ![s] = HandlerExit]
                /\ outbox' = [outbox EXCEPT ![s] =
                                IF connected[s]
                                THEN Emit(@, Reply(m.id, [ErrorDet EXCEPT !.kind = "ws_error"]))
                                ELSE @]
                /\ UNCHANGED <<busy, cur>>
           ELSE IF Imdecode(m.kind) = "None"
           THEN \* send {"error": "decode_failed"}; continue
                IF connected[s]
                THEN /\ outbox' = [outbox EXCEPT ![s] =
                                     Emit(@, Reply(m.id, [ErrorDet EXCEPT !.kind = "decode_failed"]))]
                     /\ UNCHANGED <<pc, busy, cur>>
                ELSE /\ pc' = [pc EXCEPT ![s] = HandlerExit]
                     /\ UNCHANGED <<busy, outbox, cur>>
           ELSE IF busy[s]
           THEN \* drop the frame; continue
                UNCHANGED <<pc, busy, outbox, cur>>
           ELSE \* busy = True; run _detect_labels_and_boxes on a worker
                /\ busy' = [busy EXCEPT ![s] = TRUE]
                /\ cur' = [cur EXCEPT ![s] = m]
                /\ pc' = [pc EXCEPT ![s] = "lock"]
                /\ UNCHANGED outbox
    /\ UNCHANGED <<nsent, connected, det, nowv, esp, model_lock,
                   last_alert_ts, clock, last_sent>>
    /\ UNCHANGED <<nalerts, framevars, detvars, apivars>>

\* mutant: the result is sent and the loop goes on with busy still True
WsSendKeepsBusy(s) ==
    /\ s \in Sessions
    /\ pc[s] = "done"
    /\ LET d == RunSyncResult(det[s]) IN
        IF connected[s]
        THEN /\ outbox' = [outbox EXCEPT ![s] = Emit(@, Reply(cur[s].id, d))]
             /\ UNCHANGED busy
             /\ pc' = [pc EXCEPT ![s] = "recv"]
        ELSE \* send_json raises on the closed connection
             /\ pc' = [pc EXCEPT ![s] = HandlerExit]
             /\ UNCHANGED <<outbox, busy>>
    /\ det' = [det EXCEPT ![s] = NoDet]
    /\ esp' = [esp EXCEPT ![s] = "none"]
    /\ UNCHANGED <<inbox, nsent, connected, cur, nowv, model_lock,
                   last_alert_ts, clock, last_sent>>
    /\ UNCHANGED <<nalerts, framevars, detvars, apivars>>

\* the worker has returned or raised: send the result, busy = False
WsSend(s) ==
    /\ s \in Sessions
    /\ pc[s] = "done"
    /\ LET d == RunSyncResult(det[s]) IN
        IF connected[s]
        THEN /\ outbox' = [outbox EXCEPT ![s] = Emit(@, Reply(cur[s].id, d))]
             /\ busy' = [busy EXCEPT ![s] = FALSE]
             /\ pc' = [pc EXCEPT ![s] = "recv"]
        ELSE \* send_json raises on the closed connection
             /\ pc' = [pc EXCEPT ![s] = HandlerExit]
             /\ UNCHANGED <<outbox, busy>>
    /\ det' = [det EXCEPT ![s] = NoDet]
    /\ esp' = [esp EXCEPT ![s] = "none"]
    /\ UNCHANGED <<inbox, nsent, connected, cur, nowv, model_lock,
                   last_alert_ts, clock, last_sent>>
    /\ UNCHANGED <<nalerts, framevars, detvars, apivars>>

----------------------------------------------------------------------------
(* _detect_labels_and_boxes and _annotate_frame, run by any caller *)

\* with _model_lock: entered
AcquireLock(c) ==
    /\ pc[c] \in {"lock", "a_lock"}
    /\ LockFree
    /\ model_lock' = c
    /\ pc' = [pc EXCEPT ![c] = IF pc[c] = "lock" THEN "infer" ELSE "a_infer"]
    /\ UNCHANGED <<busy, inbox, nsent, connected, outbox, cur, det, nowv,
                   esp, last_alert_ts, clock, last_sent>>
    /\ UNCHANGED <<nalerts, framevars, detvars, apivars>>

\* mutant: the alert block inside the with statement of the lock
InferDoneHoldsLock(c, o) ==
    /\ pc[c] = "infer"
    /\ model_lock' = IF DetOf(o).drowsy THEN c ELSE NoOne
    /\ det' = [det EXCEPT ![c] = IF c \in Sessions THEN DetOf(o) ELSE @]
    /\ pc' = [pc EXCEPT ![c] = IF DetOf(o).drowsy THEN "alert"
                                ELSE AfterDetect(c, FALSE)]
    /\ UNCHANGED <<busy, inbox, nsent, connected, outbox, cur, nowv, esp,
                   last_alert_ts, clock, last_sent>>
    /\ UNCHANGED <<nalerts, framevars, detvars, apivars>>

\* model(fr) returns o: the lock is released, labels and is_drowsy computed
InferDone(c, o) ==
    /\ pc[c] = "infer"
    /\ model_lock' = NoOne
    /\ det' = [det EXCEPT ![c] = IF c \in Sessions THEN DetOf(o) ELSE @]
    /\ pc' = [pc EXCEPT ![c] = IF DetOf(o).drowsy THEN "alert"
                                ELSE AfterDetect(c, FALSE)]
    /\ UNCHANGED <<busy, inbox, nsent, connected, outbox, cur, nowv, esp,
                   last_alert_ts, clock, last_sent>>
    /\ UNCHANGED <<nalerts, framevars, detvars, apivars>>

\* mutant: an exception of the model call leaves the lock held
InferRaiseHoldsLock(c) ==
    /\ pc[c] = "infer"
    /\ UNCHANGED model_lock
    /\ det' = [det EXCEPT ![c] = IF c \in Sessions THEN DetRaise ELSE @]
    /\ pc' = [pc EXCEPT ![c] = AfterDetect(c, TRUE)]
    /\ UNCHANGED <<busy, inbox, nsent, connected, outbox, cur, nowv, esp,
                   last_alert_ts, clock, last_sent>>
    /\ UNCHANGED <<nalerts, framevars, detvars, apivars>>

\* model(fr) raises: the with statement releases the lock, the exception
\* leaves _detect_labels_and_boxes
InferRaise(c) ==
    /\ pc[c] = "infer"
    /\ model_lock' = NoOne
    /\ det' = [det EXCEPT ![c] = IF c \in Sessions THEN DetRaise ELSE @]
    /\ pc' = [pc EXCEPT ![c] = AfterDetect(c, TRUE)]
    /\ UNCHANGED <<busy, inbox, nsent, connected, outbox, cur, nowv, esp,
                   last_alert_ts, clock, last_sent>>
    /\ UNCHANGED <<nalerts, framevars, detvars, apivars>>

\* mutant: a verdict within the cooldown starts the cooldown again
AlertCheckRestarts(c) ==
    /\ pc[c] = "alert"
    /\ \E t \in clock..MaxClock :
        /\ clock' = t
        /\ IF CooldownElapsed(t, last_alert_ts)
           THEN /\ last_sent' = t
                /\ nalerts' = nalerts + 1
                /\ nowv' = [nowv EXCEPT ![c] = t]
                /\ pc' = [pc EXCEPT ![c] = "trigger"]
                /\ UNCHANGED last_alert_ts
           ELSE /\ pc' = [pc EXCEPT ![c] = AfterDetect(c, FALSE)]
                /\ last_alert_ts' = t
                /\ UNCHANGED <<last_sent, nowv, nalerts>>
    /\ UNCHANGED <<busy, inbox, nsent, connected, outbox, cur, det, esp,
                   model_lock>>
    /\ UNCHANGED <<framevars, detvars, apivars>>

\* now = time.time(); the cooldown test; the request to the ESP32 is issued
AlertCheck(c) ==
    /\ pc[c] = "alert"
    /\ \E t \in clock..MaxClock :
        /\ clock' = t
        /\ IF CooldownElapsed(t, last_alert_ts)
           THEN /\ last_sent' = t
                /\ nalerts' = nalerts + 1
                /\ nowv' = [nowv EXCEPT ![c] = t]
                /\ pc' = [pc EXCEPT ![c] = "trigger"]
           ELSE /\ pc' = [pc EXCEPT ![c] = AfterDetect(c, FALSE)]
                /\ UNCHANGED <<last_sent, nowv, nalerts>>
    /\ UNCHANGED <<busy, inbox, nsent, connected, outbox, cur, det, esp,
                   model_lock, last_alert_ts>>
    /\ UNCHANGED <<framevars, detvars, apivars>>

\* mutant: _trigger_esp32 without its except clause, a failed request raises
TriggerDoneRaises(c, ok) ==
    /\ pc[c] = "trigger"
    /\ esp' = [esp EXCEPT ![c] = IF c \in Sessions
                                  THEN (IF ok THEN "ok" ELSE "failed") ELSE @]
    /\ last_alert_ts' = IF ok THEN nowv[c] ELSE last_alert_ts
    /\ det' = [det EXCEPT ![c] = IF ok \/ c \notin Sessions THEN @ ELSE DetRaise]
    /\ nowv' = [nowv EXCEPT ![c] = 0]
    /\ pc' = [pc EXCEPT ![c] = AfterDetect(c, ~ok)]
    /\ UNCHANGED <<busy, inbox, nsent, connected, outbox, cur,
                   model_lock, clock, last_sent>>
    /\ UNCHANGED <<nalerts, framevars, detvars, apivars>>

\* _trigger_esp32 returns, whether the request succeeded or its exception
\* was logged; _last_alert_ts = now
TriggerDone(c, ok) ==
    /\ pc[c] = "trigger"
    /\ esp' = [esp EXCEPT ![c] = IF c \in Sessions
                                  THEN (IF ok THEN "ok" ELSE "failed") ELSE @]
    /\ last_alert_ts' = nowv[c]
    /\ nowv' = [nowv EXCEPT ![c] = 0]
    /\ pc' = [pc EXCEPT ![c] = AfterDetect(c, FALSE)]
    /\ UNCHANGED <<busy, inbox, nsent, connected, outbox, cur, det,
                   model_lock, clock, last_sent>>
    /\ UNCHANGED <<nalerts, framevars, detvars, apivars>>

----------------------------------------------------------------------------
(* detect_image_json *)

\* a request with a decodable image arrives
HttpRequest(h) ==
    /\ h \in Https
    /\ pc[h] = "idle"
    /\ nsent < MaxFrames
    /\ nsent' = nsent + 1
    /\ pc' = [pc EXCEPT ![h] = "lock"]
    /\ UNCHANGED <<busy, inbox, connected, outbox, cur, det, nowv,
                   esp, model_lock, last_alert_ts, clock, last_sent>>
    /\ UNCHANGED <<nalerts, framevars, detvars, apivars>>

\* _annotate_frame: model(frame) returns or raises, the lock is released,
\* the response is sent
AnnotateDone(h) ==
    /\ pc[h] = "a_infer"
    /\ model_lock' = NoOne
    /\ pc' = [pc EXCEPT ![h] = "idle"]
    /\ UNCHANGED <<busy, inbox, nsent, connected, outbox, cur, det, nowv,
                   esp, last_alert_ts, clock, last_sent>>
    /\ UNCHANGED <<nalerts, framevars, detvars, apivars>>

----------------------------------------------------------------------------
Next ==
    \/ \E s \in Sessions, k \in {"frame", "corrupt", "empty"} : ClientSend(s, k)
    \/ \E s \in Sessions : ClientDisconnect(s)
    \/ \E s \in Sessions : WsReceive(s)
    \/ \E s \in Sessions : WsSend(s)
    \/ \E c \in Callers : AcquireLock(c)
    \/ \E c \in Callers, o \in ModelOutputs : InferDone(c, o)
    \/ \E c \in Callers : InferRaise(c)
    \/ \E c \in Callers : AlertCheck(c)
    \/ \E c \in Callers, ok \in BOOLEAN : TriggerDone(c, ok)
    \/ \E h \in Https : HttpRequest(h)
    \/ \E h \in Https : AnnotateDone(h)

Spec == Init /\ [][Next]_vars

----------------------------------------------------------------------------
(* The traffic on _model_lock, with a client that posts images without end  *)
(* and the scheduling the lock waits rely on: a model call that was started *)
(* comes to its end, and a caller blocked in the acquire of _model_lock     *)
(* gets the lock once it has been free again and again. The frames show no  *)
(* drowsiness: the alert block runs after the lock is released and takes    *)
(* no part in this traffic.                                                 *)

\* a request with a decodable image arrives, one of any number
HttpPost(h) ==
    /\ h \in Https
    /\ pc[h] = "idle"
    /\ pc' = [pc EXCEPT ![h] = "lock"]
    /\ UNCHANGED <<busy, inbox, nsent, connected, outbox, cur, det, nowv,
                   esp, model_lock, last_alert_ts, clock, last_sent>>
    /\ UNCHANGED <<nalerts, framevars, detvars, apivars>>

\* the model finds no drowsiness in the frame
Awake == <<0>>

NextLive ==
    \/ \E s \in Sessions : ClientSend(s, "frame")
    \/ \E s \in Sessions : WsReceive(s)
    \/ \E s \in Sessions : WsSend(s)
    \/ \E c \in Callers : AcquireLock(c)
    \/ \E c \in Callers : InferDone(c, Awake)
    \/ \E c \in Callers : InferRaise(c)
    \/ \E h \in Https : HttpPost(h)
    \/ \E h \in Https : AnnotateDone(h)

\* model(fr) or model(frame) of caller c comes to its end
ModelCallEnds(c) ==
    \/ InferDone(c, Awake)
    \/ InferRaise(c)
    \/ AnnotateDone(c)

Scheduling ==
    \A c \in Callers :
        /\ WF_vars(ModelCallEnds(c))
        /\ SF_vars(AcquireLock(c))

SpecLive == Init /\ [][NextLive]_vars /\ Scheduling

----------------------------------------------------------------------------
(* One call of _detect_labels_and_boxes after the other, followed from the  *)
(* frame to the dict; the lock and the alert are left to Spec.              *)

\* fr, sx, sy = _maybe_resize(frame, 640); when cv2.resize raises, so
\* does _detect_labels_and_boxes
Resize ==
    /\ frame # NoFrame
    /\ fr = NoFr
    /\ fr' = MaybeResize(frame)
    /\ ret' = IF fr'.kind = "raise" THEN RetRaise ELSE ret
    /\ UNCHANGED <<frame, results>>
    /\ UNCHANGED <<pipevars, detvars, apivars>>

\* results = model(fr)
ModelCall ==
    /\ fr.kind \in {"same", "resized"}
    /\ results = NoResults
    /\ \E r \in ModelResults(frame, fr) : results' = r
    /\ UNCHANGED <<frame, fr, ret>>
    /\ UNCHANGED <<pipevars, detvars, apivars>>

\* the early return for r.boxes is None, or the boxes scaled back, the
\* labels and the verdict
Return ==
    /\ results # NoResults
    /\ ret = NoRet
    /\ ret' = RetOf(results, fr.sx)
    /\ UNCHANGED <<frame, fr, results>>
    /\ UNCHANGED <<pipevars, detvars, apivars>>

\* the dict, or the exception, has reached the caller
EndCall ==
    /\ ret # NoRet
    /\ frame' = NoFrame
    /\ fr' = NoFr
    /\ results' = NoResults
    /\ ret' = NoRet
    /\ UNCHANGED <<pipevars, detvars, apivars>>

\* a frame is passed in
NewCall(shape) ==
    /\ frame = NoFrame
    /\ frame' = shape
    /\ fr' = NoFr
    /\ results' = NoResults
    /\ ret' = NoRet
    /\ UNCHANGED <<pipevars, detvars, apivars>>

NextFrame ==
    \/ Resize
    \/ ModelCall
    \/ Return
    \/ EndCall
    \/ \E shape \in Shapes : NewCall(shape)

SpecFrame == Init /\ [][NextFrame]_vars

----------------------------------------------------------------------------
(* The calls on one DrowsinessDetector object, one at a time.              *)

\* detect returns through its last line
Detect(boxes) ==
    /\ total_frames < MaxDetect
    /\ frame_buffer' = Push(frame_buffer, RawDrowsy(boxes))
    /\ total_frames' = total_frames + 1
    /\ drowsy_frames' = drowsy_frames + (IF Smoothed(frame_buffer') THEN 1 ELSE 0)
    /\ detected' = [kind |-> "ok", smoothed |-> Smoothed(frame_buffer')]
    /\ UNCHANGED <<pipevars, framevars, apivars>>

\* detect returns (False, 0.0, frame): for a frame that is None or empty,
\* or from its except clause when the model call raises
DetectFails ==
    /\ detected' = [kind |-> "failed", smoothed |-> FALSE]
    /\ UNCHANGED <<frame_buffer, total_frames, drowsy_frames>>
    /\ UNCHANGED <<pipevars, framevars, apivars>>

\* detect returns from its except clause when _add_status_overlay raises:
\* the verdict has been put into the buffer by then
DetectFailsLate(boxes) ==
    /\ frame_buffer' = Push(frame_buffer, RawDrowsy(boxes))
    /\ detected' = [kind |-> "failed", smoothed |-> FALSE]
    /\ UNCHANGED <<total_frames, drowsy_frames>>
    /\ UNCHANGED <<pipevars, framevars, apivars>>

\* reset_statistics
ResetStatistics ==
    /\ total_frames' = 0
    /\ drowsy_frames' = 0
    /\ frame_buffer' = <<>>
    /\ UNCHANGED detected
    /\ UNCHANGED <<pipevars, framevars, apivars>>

NextDetector ==
    \/ \E boxes \in DetectorResults : Detect(boxes)
    \/ DetectFails
    \/ \E boxes \in DetectorResults : DetectFailsLate(boxes)
    \/ ResetStatistics

SpecDetector == Init /\ [][NextDetector]_vars

----------------------------------------------------------------------------
(* One fresh session whose client sends buffer_size frames that the model   *)
(* labels eyes_closed, all handled within one cooldown window.              *)

Driver == "s1"
EyesClosed == <<2>>

\* the client sends the next frame
SendFrame(s) ==
    /\ connected[s]
    /\ nsent < buffer_size
    /\ nsent' = nsent + 1
    /\ inbox' = [inbox EXCEPT ![s] =
                    Append(@, [id |-> nsent + 1, kind |-> "frame",
                               whileBusy |-> busy[s]])]
    /\ UNCHANGED <<pc, busy, connected, outbox, cur, det, nowv, esp,
                   model_lock, last_alert_ts, clock, last_sent, nalerts>>
    /\ UNCHANGED <<framevars, detvars, apivars>>

\* time.time() stays within the cooldown window that starts at StartClock
InWindow == clock' < StartClock + ALERT_COOLDOWN_S

NextScenario ==
    \/ SendFrame(Driver)
    \/ WsReceive(Driver)
    \/ AcquireLock(Driver)
    \/ InferDone(Driver, EyesClosed)
    \/ AlertCheck(Driver) /\ InWindow
    \/ \E ok \in BOOLEAN : TriggerDone(Driver, ok)
    \/ WsSend(Driver)

SpecScenario == Init /\ [][NextScenario]_vars

----------------------------------------------------------------------------
(* The REST handlers of app.py over the tables users and sessions: each    *)
(* runs its body inside try, and its except clauses decide what an         *)
(* exception of the body becomes.                                          *)

\* how many rows table sessions gets
MaxSessions == 2

Usernames == {"ann", "bob"}
Emails == {"ann@x", "bob@x"}

\* the session ids a client asks for: those of the rows, and one beyond
SessionIds == 1..(MaxSessions + 1)

\* the body of a handler raised exc; status is that of an HTTPException
Raised(exc, status) == [exc |-> exc, status |-> status]

\* sqlite3 could not run the statement (database locked, disk error)
DbError == Raised("OperationalError", 500)

\* the except clauses of a handler, in their order: the class caught, and
\* whether the clause raises the exception again or HTTPException(status)
Excepts(handler) ==
    CASE handler = "register_user" ->
            <<[cls |-> "IntegrityError", reraise |-> FALSE, status |-> 400],
              [cls |-> "Exception", reraise |-> FALSE, status |-> 500]>>
      [] handler = "login_user_legacy" ->
            <<[cls |-> "Exception", reraise |-> FALSE, status |-> 500]>>
      [] handler = "start_session" ->
            <<[cls |-> "Exception", reraise |-> FALSE, status |-> 500]>>
      [] handler = "end_session" ->
            <<[cls |-> "HTTPException", reraise |-> TRUE, status |-> 0],
              [cls |-> "Exception", reraise |-> FALSE, status |-> 500]>>
      [] handler = "get_session_details" ->
            <<[cls |-> "Exception", reraise |-> FALSE, status |-> 500]>>

\* isinstance: HTTPException and the sqlite3 errors all derive from Exception
IsInstance(exc, cls) == cls = "Exception" \/ exc = cls

\* an exception leaves the handler: FastAPI answers an HTTPException with
\* its status code, anything else with 500
Unhandled(outcome) ==
    IF outcome.exc = "HTTPException" THEN outcome.status ELSE 500

\* the status code of the response, from what the body did
StatusOf(handler, outcome) ==
    IF outcome.exc = "none" THEN 200
    ELSE LET cl == Excepts(handler)
             m == {i \in 1..Len(cl) : IsInstance(outcome.exc, cl[i].cls)}
         IN IF m = {} THEN Unhandled(outcome)
            ELSE LET k == CHOOSE i \in m : \A j \in m : i <= j
                 IN IF cl[k].reraise THEN Unhandled(outcome)
                    ELSE cl[k].status

\* what the client gets
Response(handler, outcome) ==
    [handler |-> handler, raised |-> outcome,
     status |-> StatusOf(handler, outcome)]

\* POST /users/register
RegisterUser(u, e, dbok) ==
    /\ LET outcome ==
            IF ~dbok THEN DbError
            ELSE IF \E r \in users : r.username = u \/ r.email = e
            THEN Raised("IntegrityError", 500)
            ELSE Returned
       IN /\ users' = IF outcome = Returned
                      THEN users \cup {[username |-> u, email |-> e]}
                      ELSE users
          /\ resp' = Response("register_user", outcome)
    /\ UNCHANGED sessions
    /\ UNCHANGED <<pipevars, framevars, detvars>>

\* POST /users/login_legacy
LoginUserLegacy(u, e, dbok) ==
    /\ LET outcome ==
            IF ~dbok THEN DbError
            ELSE IF [username |-> u, email |-> e] \in users THEN Returned
            ELSE Raised("HTTPException", 401)
       IN resp' = Response("login_user_legacy", outcome)
    /\ UNCHANGED <<users, sessions>>
    /\ UNCHANGED <<pipevars, framevars, detvars>>

\* POST /sessions/start
StartSession(dbok) ==
    /\ Len(sessions) < MaxSessions
    /\ sessions' = IF dbok THEN Append(sessions, "open") ELSE sessions
    /\ resp' = Response("start_session", IF dbok THEN Returned ELSE DbError)
    /\ UNCHANGED users
    /\ UNCHANGED <<pipevars, framevars, detvars>>

\* POST /sessions/{session_id}/end
EndSession(id, dbok) ==
    /\ LET outcome ==
            IF ~dbok THEN DbError
            ELSE IF id \in 1..Len(sessions) THEN Returned
            ELSE Raised("HTTPException", 404)
       IN /\ sessions' = IF outcome = Returned
                         THEN [sessions EXCEPT ![id] = "ended"]
                         ELSE sessions
          /\ resp' = Response("end_session", outcome)
    /\ UNCHANGED users
    /\ UNCHANGED <<pipevars, framevars, detvars>>

\* GET /sessions/{session_id}/details
GetSessionDetails(id, dbok) ==
    /\ LET outcome ==
            IF ~dbok THEN DbError
            ELSE IF id \in 1..Len(sessions) THEN Returned
            ELSE Raised("HTTPException", 404)
       IN resp' = Response("get_session_details", outcome)
    /\ UNCHANGED <<users, sessions>>
    /\ UNCHANGED <<pipevars, framevars, detvars>>

NextApi ==
    \/ \E u \in Usernames, e \in Emails, dbok \in BOOLEAN :
          RegisterUser(u, e, dbok)
    \/ \E u \in Usernames, e \in Emails, dbok \in BOOLEAN :
          LoginUserLegacy(u, e, dbok)
    \/ \E dbok \in BOOLEAN : StartSession(dbok)
    \/ \E id \in SessionIds, dbok \in BOOLEAN : EndSession(id, dbok)
    \/ \E id \in SessionIds, dbok \in BOOLEAN : GetSessionDetails(id, dbok)

SpecApi == Init /\ [][NextApi]_vars

----------------------------------------------------------------------------
(* Vocabulary of the properties. *)

\* the model call of _detect_labels_and_boxes or _annotate_frame is executing
InModel(c) == pc[c] \in {"infer", "a_infer"}

\* the worker of session s is between its start and the sending of its result
Classifying(s) == pc[s] \in {"lock", "infer", "alert", "trigger", "done"}

\* ws_infer of s takes the message at the head of its queue in this step
Receives(s) ==
    /\ pc[s] = "recv"
    /\ inbox[s] # <<>>
    /\ inbox'[s] = Tail(inbox[s])

\* the frame verdicts of session s so far, the frame in hand included
Verdicts(s) ==
    LET sent == SelectSeq(outbox[s], LAMBDA r : r.kind = "det")
        past == [i \in 1..Len(sent) |-> sent[i].drowsy]
    IN IF det[s].kind = "det" THEN Append(past, det[s].drowsy) ELSE past

\* how many of the last 5 verdicts of v are drowsy
DrowsyInLast5(v) ==
    Cardinality({i \in 1..Len(v) : i > Len(v) - 5 /\ v[i]})

----------------------------------------------------------------------------
(* C1: at any instant at most one caller, session worker or HTTP request,  *)
(* is executing the model call of _detect_labels_and_boxes or              *)
(* _annotate_frame.                                                        *)
C1_SingleFlight == Cardinality({c \in Callers : InModel(c)}) <= 1

\* a session worker is in the model call while the HTTP request waits for
\* the lock
C1_Witness ==
    \E s \in Sessions, h \in Https :
        pc[s] = "infer" /\ pc[h] \in {"lock", "a_lock"}

(* C2: a frame that arrives on a session while busy is True is discarded:  *)
(* it is never handed to the worker.                                       *)
C2_BusyFrameDiscarded ==
    \A s \in Sessions : Classifying(s) => ~cur[s].whileBusy

(* C3: while an accepted frame is being classified (busy is True) the      *)
(* session can still take the next message of its queue.                   *)
C3_IntakeWhileClassifying ==
    \A s \in Sessions :
        (Classifying(s) /\ busy[s] /\ inbox[s] # <<>>) => ENABLED WsReceive(s)

(* C4: a request is sent to the actuator for a session only when at least  *)
(* 3 of the session's last 5 frame verdicts are drowsy.                    *)
C4_AlertOnlyWhenSustained ==
    \A s \in Sessions : pc[s] = "trigger" => DrowsyInLast5(Verdicts(s)) >= 3

(* C5: a drowsy verdict handled after an earlier one that sent a           *)
(* notification and was handled completely sends a notification if and     *)
(* only if the two are at least ALERT_COOLDOWN_S apart: one notification in *)
(* all when they are closer, two when they are not.                        *)
C5_SequentialDebounce ==
    [][\A c \in Callers :
        ( /\ pc[c] = "alert"
          /\ pc'[c] # "alert"
          /\ last_alert_ts > 0
          /\ last_alert_ts = last_sent
          /\ \A d \in Callers : pc[d] # "trigger" )
        => ( (pc'[c] = "trigger" /\ last_sent' = clock')
             <=> (clock' - last_sent >= ALERT_COOLDOWN_S) )]_vars

\* a second notification is being sent exactly one cooldown after the first
C5_Witness ==
    \E c \in Callers :
        /\ pc[c] = "trigger"
        /\ last_alert_ts > 0
        /\ nowv[c] - last_alert_ts = ALERT_COOLDOWN_S

(* C6: a message that does not decode, corrupt or empty, received on an    *)
(* open session is answered with decode_failed, leaves busy as it is and   *)
(* leaves the session receiving.                                           *)
C6_DecodeFailureNotFatal ==
    [][\A s \in Sessions :
        ( /\ Receives(s)
          /\ connected[s]
          /\ Head(inbox[s]).kind \in {"corrupt", "empty"} )
        => ( /\ outbox'[s] = Append(outbox[s],
                    [id |-> Head(inbox[s]).id, kind |-> "decode_failed",
                     cls |-> <<>>, drowsy |-> FALSE])
             /\ busy'[s] = busy[s]
             /\ pc'[s] = "recv" )]_vars

(* C7: when the model call fails for an accepted frame no alert is sent    *)
(* for it, the session sends an error result with no labels and            *)
(* drowsy = false, resets busy and goes back to receiving.                 *)
C7_InferenceFailureRecoverable ==
    [][\A s \in Sessions :
        /\ (pc[s] = "infer" /\ det'[s].kind = "raise")
            => (pc'[s] = "done" /\ last_sent' = last_sent
                /\ last_alert_ts' = last_alert_ts)
        /\ (pc[s] = "done" /\ det[s].kind = "raise" /\ pc'[s] # "done"
            /\ connected[s])
            => ( /\ outbox'[s] = Append(outbox[s],
                        [id |-> cur[s].id, kind |-> "error",
                         cls |-> <<>>, drowsy |-> FALSE])
                 /\ busy'[s] = FALSE
                 /\ pc'[s] = "recv" )]_vars

\* a session has answered a failed frame with an error and then a later
\* frame with a detection
C7_Witness ==
    \E s \in Sessions :
        /\ Len(outbox[s]) = 2
        /\ outbox[s][1].kind = "error"
        /\ outbox[s][2].kind = "det"

(* C8: when the request to the actuator fails the worker still returns     *)
(* normally, with the detection it computed from the model output, and     *)
(* that detection is what the session sends.                               *)
C8_ActuatorFailureAbsorbed ==
    [][\A s \in Sessions :
        /\ (pc[s] = "trigger" /\ pc'[s] # "trigger")
            => (pc'[s] = "done" /\ det'[s] = det[s] /\ det[s].kind = "det")
        /\ (pc[s] = "done" /\ esp[s] = "failed" /\ pc'[s] # "done"
            /\ connected[s])
            => outbox'[s] = Append(outbox[s],
                    [id |-> cur[s].id, kind |-> "det",
                     cls |-> det[s].cls, drowsy |-> IsDrowsy(det[s].cls)])]_vars

\* the worker of a session has returned after a failed request
C8_Witness ==
    \E s \in Sessions : pc[s] = "done" /\ esp[s] = "failed"

(* C9: on one session the results are sent in the order in which their     *)
(* frames were accepted: the ids in the outbox increase, and the frame in  *)
(* hand is later than every result already sent.                           *)
C9_ResultsInAcceptanceOrder ==
    \A s \in Sessions :
        /\ \A i, j \in 1..Len(outbox[s]) :
              i < j => outbox[s][i].id < outbox[s][j].id
        /\ Classifying(s) =>
              \A i \in 1..Len(outbox[s]) : outbox[s][i].id < cur[s].id

\* a session has sent the results of two accepted frames
C9_Witness ==
    \E s \in Sessions :
        /\ Len(outbox[s]) = 2
        /\ \A i \in 1..2 : outbox[s][i].kind \in {"det", "error"}

(* C10: after a client disconnects its session ends in the closed state,   *)
(* no exception leaves ws_infer, nothing more is sent on that session,     *)
(* and the model lock is only ever held by a caller that is executing the  *)
(* model call, so the other sessions are not held up.                      *)
C10_DisconnectClean ==
    /\ [](\A s \in Sessions :
            /\ pc[s] \in {"recv", "lock", "infer", "alert", "trigger",
                          "done", "closed"}
            /\ (pc[s] = "closed" => model_lock # s))
    /\ [](model_lock # NoOne => InModel(model_lock))
    /\ [][\A s \in Sessions :
            /\ ~connected[s] => outbox'[s] = outbox[s]
            /\ (Receives(s) /\ Head(inbox[s]).kind = "disconnect")
                => pc'[s] = "closed"
            /\ (~connected[s] /\ pc[s] = "done" /\ pc'[s] # "done")
                => pc'[s] = "closed"
            /\ pc[s] = "closed" => pc'[s] = "closed"]_vars

\* a session was closed with the result of its worker unsent, and another
\* session, still connected, has had an answer and is receiving
C10_Witness ==
    \E s, t \in Sessions :
        /\ s # t
        /\ pc[s] = "closed" /\ busy[s] /\ ~connected[s]
        /\ connected[t] /\ pc[t] = "recv" /\ Len(outbox[t]) >= 1

----------------------------------------------------------------------------
(* C11: when buffer_size consecutive frames labelled eyes_closed are sent   *)
(* on a fresh session within one cooldown window, the drowsy verdict sent   *)
(* back is false for frames 1 and 2 and true from frame 3 on, and exactly   *)
(* one request to the ESP32 is issued over the five frames.                 *)
C11_EndToEndSmoothed ==
    LET o == outbox[Driver]
    IN /\ \A i \in 1..Len(o) :
              o[i].kind = "det" /\ o[i].drowsy = (i >= 3)
       /\ (Len(o) < 3 => nalerts = 0)
       /\ (Len(o) = buffer_size => nalerts = 1)

----------------------------------------------------------------------------
\* k verdicts True followed by buffer_size - k verdicts False
Pattern(k) == [i \in 1..buffer_size |-> i <= k]

\* ceil(n * 0.6)
Ceil60(n) == (6 * n + 9) \div 10

(* C12: for every k in 0..5, after k drowsy verdicts followed by 5 - k      *)
(* verdicts that are not have been pushed into the empty frame buffer, the  *)
(* smoothed verdict that detect returns is true if and only if k >= 3; and  *)
(* the test drowsy_count >= buffer_size * 0.6 agrees with the test          *)
(* drowsy_count >= ceil(buffer_size * 0.6) on every buffer.                 *)
C12_SmootherThreshold ==
    [][total_frames' = total_frames + 1 =>
          /\ \A k \in 0..buffer_size :
                 (total_frames' = buffer_size /\ frame_buffer' = Pattern(k))
                     => (detected'.smoothed <=> k >= 3)
          /\ detected'.smoothed <=>
                 Sum(frame_buffer') >= Ceil60(buffer_size)]_vars

C12_Witness ==
    /\ detected.kind = "ok"
    /\ total_frames = buffer_size
    /\ frame_buffer = Pattern(3)
    /\ detected.smoothed

----------------------------------------------------------------------------
\* the longest edge of the frame passed in
Longest == Max(frame.h, frame.w)

(* C13: _maybe_resize never upscales: for a frame whose longest edge is at  *)
(* most 640 it returns the very same frame, with the same height and        *)
(* width, and the scale 1.0.                                                *)
C13_NeverUpscales ==
    (fr # NoFr /\ Longest <= max_side) =>
        /\ fr.kind = "same"
        /\ fr.h = frame.h
        /\ fr.w = frame.w
        /\ fr.sx = One

C13_Witness ==
    /\ fr.kind = "same"
    /\ Longest = max_side
    /\ frame.h < frame.w

\* edge e of the frame became edge r of fr: r is e * scale cut to an integer
TruncatedTo(e, r) ==
    /\ RatLe(Rat(r), RatMul(Rat(e), ScaleOf(frame.h, frame.w)))
    /\ RatLe(RatMul(Rat(e), ScaleOf(frame.h, frame.w)), Rat(r + 1))

(* C14: for every frame whose longest edge exceeds 640, _maybe_resize       *)
(* returns a resized frame whose longest edge is 640 give or take one       *)
(* pixel, the scale 640 / max(h, w), and edges that are the original edges  *)
(* times the scale, cut to an integer.                                      *)
C14_ResizedToLimit ==
    (fr # NoFr /\ Longest > max_side) =>
        /\ fr.kind = "resized"
        /\ Max(fr.h, fr.w) \in (max_side - 1)..(max_side + 1)
        /\ RatEq(fr.sx, <<max_side, Longest>>)
        /\ TruncatedTo(frame.h, fr.h)
        /\ TruncatedTo(frame.w, fr.w)

(* C15: the boxes in the dict are the boxes of the model with every         *)
(* coordinate multiplied by 1 / sx, so that a point p of the frame passed   *)
(* in, which the model sees at p * sx in fr, is reported at p again; when   *)
(* sx is 1.0 the boxes are exactly those of the model.                      *)
C15_RescaleInverts ==
    (ret.kind = "dict" /\ results.kind = "boxes") =>
        /\ Len(ret.boxes) = Len(results.xyxy)
        /\ \A i \in 1..Len(ret.boxes) : \A j \in 1..4 :
               RatEq(RatMul(ret.boxes[i][j], fr.sx), results.xyxy[i][j])
        /\ \A i \in 1..Len(ret.boxes) : \A b \in OrigBoxes(frame) :
               results.xyxy[i] = Project(b, fr.sx) =>
                   \A j \in 1..4 : RatEq(ret.boxes[i][j], Rat(b[j]))
        /\ fr.sx = One => ret.boxes = results.xyxy

C15_Witness ==
    /\ ret.kind = "dict"
    /\ fr.kind = "resized"
    /\ Len(ret.boxes) = MaxBoxes
    /\ ret.boxes[1][1] = Rat(1)
    /\ ret.boxes[1][3] = Rat(frame.w)
    /\ results.xyxy[1][3] # Rat(frame.w)

\* k occurs in text as a run of consecutive characters
Occurs(k, text) ==
    \E a \in 1..Len(text) : \E b \in a..Len(text) : SubSeq(text, a, b) = k

Keywords == {drowsy_keywords[n] : n \in 1..Len(drowsy_keywords)}

(* C16: the drowsy flag of the dict is a function of the labels alone: it   *)
(* is true exactly when one of the keywords drowsy, sleep, asleep, closed,  *)
(* yawn, tired occurs in the lower-cased labels joined by spaces; it is     *)
(* false when there are no labels, and the boxes and the scale play no      *)
(* part in it.                                                              *)
C16_VerdictFromLabels ==
    ret.kind = "dict" =>
        /\ ret.drowsy <=>
               \E k \in Keywords : Occurs(k, Lower(Join(ret.labels)))
        /\ ret.labels = <<>> => ~ret.drowsy
        /\ ret.labels = results.names

C16_Witness ==
    /\ ret.kind = "dict"
    /\ ret.drowsy
    /\ ret.labels = << <<"a","w","a","k","e">>, <<"S","l","e","e","p","y">> >>
    /\ fr.kind = "resized"

----------------------------------------------------------------------------
(* C17: the cooldown test and the update of _last_alert_ts are one atomic   *)
(* step under a lock of their own: a caller passes the test only while no   *)
(* other caller is between its test and its update, and no request to the   *)
(* ESP32 is issued less than ALERT_COOLDOWN_S after the one before it.      *)
C17_AlertStateExclusive ==
    [][\A c \in Callers :
        (pc[c] = "alert" /\ pc'[c] = "trigger") =>
            /\ \A d \in Callers \ {c} : pc[d] # "trigger"
            /\ (last_sent = 0 \/ clock' - last_sent >= ALERT_COOLDOWN_S)]_vars

(* C18: _last_alert_ts never decreases: every write stores a value that is  *)
(* at least the value it replaces.                                          *)
C18_TimestampMonotonic ==
    [][last_alert_ts' >= last_alert_ts]_vars

\* c leaves the cooldown test
Tested(c) == pc[c] = "alert" /\ pc'[c] # "alert"

C20_AlertOutsideLock ==
    \A c \in Callers :
        pc[c] \in {"alert", "trigger"} =>
            /\ model_lock # c
            /\ \A d \in Callers :
                   (pc[d] \in {"lock", "a_lock"} /\ model_lock = NoOne)
                       => ENABLED AcquireLock(d)

\* one caller waits for the ESP32 while another runs the model
C20_Witness ==
    \E c, d \in Callers :
        /\ pc[c] = "trigger"
        /\ pc[d] = "infer"
        /\ model_lock = d

----------------------------------------------------------------------------
\* the buffer after the verdict v has entered it: behind the verdicts that
\* were there, the oldest of which has left a full buffer
Entered(buffer, v) ==
    IF Len(buffer) < buffer_size
    THEN Append(buffer, v)
    ELSE Tail(buffer) \o <<v>>

(* C23: after any sequence of calls of detect and reset_statistics the      *)
(* frame buffer holds at most buffer_size verdicts, the most recent ones in  *)
(* the order they came in: a call that returns a verdict puts one verdict   *)
(* at the end, and exactly the oldest one leaves when the buffer was full;  *)
(* otherwise the buffer only changes by being emptied.                      *)
C23_WindowBounded ==
    /\ [](Len(frame_buffer) <= buffer_size)
    /\ [][/\ total_frames' = total_frames + 1 =>
               \E v \in BOOLEAN : frame_buffer' = Entered(frame_buffer, v)
          /\ frame_buffer' # frame_buffer =>
               \/ frame_buffer' = <<>>
               \/ \E v \in BOOLEAN :
                      frame_buffer' = Entered(frame_buffer, v)]_vars

\* the sixth verdict since the reset has pushed the first one out
C23_Witness ==
    /\ total_frames = buffer_size + 1
    /\ frame_buffer = <<FALSE, FALSE, FALSE, FALSE, TRUE>>
    /\ detected.kind = "ok"

(* C28: whenever detect returns its failure result, for a frame that is     *)
(* None or empty or because an exception was raised anywhere in it, the     *)
(* frame buffer and the statistics are what they were before the call.      *)
C28_FailureLeavesState ==
    [][detected'.kind = "failed" =>
          \/ UNCHANGED <<frame_buffer, total_frames, drowsy_frames>>
          \/ /\ frame_buffer' = <<>>
             /\ total_frames' = 0
             /\ drowsy_frames' = 0]_vars

\* the model's box number i lies inside the frame fr it was handed
InsideFr(i) ==
    LET b == results.xyxy[i]
    IN /\ RatLe(Rat(0), b[1]) /\ RatLe(b[1], Rat(fr.w))
       /\ RatLe(Rat(0), b[3]) /\ RatLe(b[3], Rat(fr.w))
       /\ RatLe(Rat(0), b[2]) /\ RatLe(b[2], Rat(fr.h))
       /\ RatLe(Rat(0), b[4]) /\ RatLe(b[4], Rat(fr.h))

\* coordinate j of box i of the dict is a double in [0, limit]
InRange(i, j, limit) ==
    LET x == ret.boxes[i][j]
        e == ret.err[i][j]
    IN /\ RatLe(Rat(0), x)
       /\ RatEq(x, Rat(0)) => e >= 0
       /\ RatLe(x, Rat(limit))
       /\ RatEq(x, Rat(limit)) => e <= 0

(* C24: every box of the dict has its coordinates within the frame passed   *)
(* in, 0 <= x1, x2 <= w0 and 0 <= y1, y2 <= h0, whether the frame was       *)
(* resized or not, when the model's box lies inside the frame the model     *)
(* was handed.                                                              *)
C24_BoxesWithinFrame ==
    (ret.kind = "dict" /\ results.kind = "boxes") =>
        \A i \in 1..Len(ret.boxes) :
            InsideFr(i) =>
                /\ InRange(i, 1, frame.w)
                /\ InRange(i, 3, frame.w)
                /\ InRange(i, 2, frame.h)
                /\ InRange(i, 4, frame.h)

(* C26: for every frame with a longest edge above 640 and both edges at     *)
(* least 1, _maybe_resize computes a target size with both edges at least   *)
(* 1, and the resize does not fail.                                         *)
C26_TargetNeverEmpty ==
    (fr # NoFr /\ Longest > max_side /\ frame.h >= 1 /\ frame.w >= 1) =>
        /\ fr.h >= 1
        /\ fr.w >= 1
        /\ fr.kind = "resized"

----------------------------------------------------------------------------
\* c is blocked in the acquire of _model_lock
Waiting(c) == pc[c] \in {"lock", "a_lock"}

----------------------------------------------------------------------------
\* the worker of session s, or the handler waiting for it, can take a step
WorkerCanStep(s) ==
    \/ ENABLED AcquireLock(s)
    \/ ENABLED (\E o \in ModelOutputs : InferDone(s, o))
    \/ ENABLED AlertCheck(s)
    \/ ENABLED (\E ok \in BOOLEAN : TriggerDone(s, ok))
    \/ ENABLED WsSend(s)

\* session s hands the frame at the head of its queue to a worker
Accepts(s) == Receives(s) /\ pc'[s] = "lock"

\* the handler of s leaves the await of its worker
Emits(s) == pc[s] = "done" /\ pc'[s] # "done"

(* C22, as stated: every accepted frame ends with exactly one result sent, *)
(* busy False and the session receiving again.                             *)
C22_EveryAcceptedFrameAnswered ==
    [][\A s \in Sessions :
        Emits(s) => ( /\ Len(outbox'[s]) = Len(outbox[s]) + 1
                      /\ ~busy'[s]
                      /\ pc'[s] = "recv" )]_vars

(* C22: on a session that has not ended busy is True exactly while a frame *)
(* is with the worker: it is set when a frame is accepted, nothing is sent *)
(* while the worker runs, the worker can always go on (it waits only for   *)
(* the lock, held by a caller inside the model call), and when it has      *)
(* returned or raised and the client is still connected exactly one result *)
(* for that frame is sent, busy is False and the session receives again.   *)
(* When the client has gone meanwhile nothing is sent and the session ends. *)
C22_AcceptedFrameAnswered ==
    /\ [](\A s \in Sessions :
            /\ pc[s] # HandlerExit => (busy[s] <=> Classifying(s))
            /\ Classifying(s) =>
                  \/ WorkerCanStep(s)
                  \/ pc[s] = "lock" /\ \E c \in Callers \ {s} : InModel(c))
    /\ [][\A s \in Sessions :
            /\ Accepts(s) => (busy'[s] /\ cur'[s] = Head(inbox[s])
                              /\ outbox'[s] = outbox[s])
            /\ (Classifying(s) /\ ~Emits(s))
                  => (outbox'[s] = outbox[s] /\ busy'[s] /\ cur'[s] = cur[s])
            /\ (Emits(s) /\ connected[s])
                  => ( /\ Len(outbox'[s]) = Len(outbox[s]) + 1
                       /\ outbox'[s][Len(outbox'[s])].id = cur[s].id
                       /\ outbox'[s][Len(outbox'[s])].kind \in {"det", "error"}
                       /\ SubSeq(outbox'[s], 1, Len(outbox[s])) = outbox[s]
                       /\ ~busy'[s]
                       /\ pc'[s] = "recv" )
            /\ (Emits(s) /\ ~connected[s])
                  => (outbox'[s] = outbox[s] /\ pc'[s] = HandlerExit)]_vars

\* a session has answered a frame whose inference failed and one whose
\* inference succeeded, and is receiving with busy False
C22_Witness ==
    \E s \in Sessions :
        /\ pc[s] = "recv" /\ ~busy[s] /\ connected[s]
        /\ Len(outbox[s]) = 2
        /\ outbox[s][1].kind = "det"
        /\ outbox[s][2].kind = "error"

----------------------------------------------------------------------------
\* the ids of the messages still queued for session s
Queued(s) == {inbox[s][i].id : i \in 1..Len(inbox[s])} \ {0}

\* session s takes a message that is not a decodable frame
ReceivesBad(s) ==
    Receives(s) /\ Head(inbox[s]).kind \in {"corrupt", "empty"}

\* the tail of the outbox of s after the step is one reply to message id
Answers(s, id) ==
    /\ Len(outbox'[s]) = Len(outbox[s]) + 1
    /\ SubSeq(outbox'[s], 1, Len(outbox[s])) = outbox[s]
    /\ outbox'[s][Len(outbox'[s])].id = id

----------------------------------------------------------------------------
\* the request of caller c to the ESP32 comes back in this step
Dispatched(c) == pc[c] = "trigger" /\ pc'[c] # "trigger"

(* C27: when a request to the ESP32 comes back, failed or not,             *)
(* _last_alert_ts becomes the time at which that request was decided; no   *)
(* other request was issued less than ALERT_COOLDOWN_S from a failed one,  *)
(* and none is issued while less than ALERT_COOLDOWN_S have passed since   *)
(* the timestamp it left.                                                  *)
C27_FailureStartsCooldown ==
    [][/\ \A c \in Callers :
            Dispatched(c) => (nowv[c] > 0 /\ last_alert_ts' = nowv[c])
       /\ \A s \in Sessions, d \in Callers :
            (Dispatched(s) /\ esp'[s] = "failed" /\ d # s /\ pc[d] = "trigger")
                => \/ nowv[d] - nowv[s] >= ALERT_COOLDOWN_S
                   \/ nowv[s] - nowv[d] >= ALERT_COOLDOWN_S
       /\ \A c \in Callers :
            (Tested(c) /\ clock' - last_alert_ts < ALERT_COOLDOWN_S)
                => pc'[c] # "trigger"]_vars

----------------------------------------------------------------------------
(* C29: an HTTPException raised in the body of a handler is answered with  *)
(* its own status code: 404 for a session that does not exist, 401 for     *)
(* credentials that match no user.                                         *)
C29_HttpExceptionKeepsStatus ==
    resp.raised.exc = "HTTPException" => resp.status = resp.raised.status

============================================================================
